---- MODULE Spec2Model ----
(***************************************************************************)
(* State-machine model of the placeReflection dragger context              *)
(* (modules/placeReflection/scripts/placeReflection.py).                   *)
(*                                                                         *)
(* Numbers: Python floats are modelled as exact rationals <<num, den>> in  *)
(* lowest terms (den > 0); vectors and points as <<x, y, z, den>> with a   *)
(* common denominator, in lowest terms.  math.sqrt and MVector.normalize   *)
(* are exact where the root is rational and are rounded down to a multiple *)
(* of 1/SqrtGrid otherwise.                                                *)
(***************************************************************************)
EXTENDS Integers, Sequences, FiniteSets, TLC

\* ------------------------------------------------------------------ bounds

\* Total number of drag callbacks explored over the life of the tool object.
MaxDrags == 3

\* Resolution to which an irrational square root is rounded.
SqrtGrid == 10

\* -------------------------------------------------------------- arithmetic

\* Python's None: as a node reference, and as a point or vector not yet set.
None == "None"
NoVector == <<>>

Abs(n) == IF n < 0 THEN -n ELSE n

RECURSIVE Gcd(_, _)
Gcd(a, b) == IF b = 0 THEN a ELSE Gcd(b, a % b)

\* The rational n/d in lowest terms with a positive denominator.
Rat(n, d) ==
    LET g == Gcd(Abs(n), Abs(d))
        s == IF d < 0 THEN -1 ELSE 1
    IN  <<(s * n) \div g, (s * d) \div g>>

RZero == <<0, 1>>
ROne == <<1, 1>>
RInt(n) == <<n, 1>>
\* Sum, difference and product; common factors are taken out before the
\* multiplications so that the intermediate integers stay small.
RAdd(a, b) ==
    LET g == Gcd(a[2], b[2])
    IN  Rat(a[1] * (b[2] \div g) + b[1] * (a[2] \div g),
            (a[2] \div g) * b[2])
RSub(a, b) == RAdd(a, <<-b[1], b[2]>>)
RMul(a, b) ==
    LET g == Gcd(Abs(a[1]), b[2])
        h == Gcd(Abs(b[1]), a[2])
    IN  Rat((a[1] \div g) * (b[1] \div h), (a[2] \div h) * (b[2] \div g))
RLess(a, b) == a[1] * b[2] < b[1] * a[2]

\* The vector (x, y, z)/d in lowest terms with a positive denominator.
Vec(x, y, z, d) ==
    LET g == Gcd(Gcd(Gcd(Abs(x), Abs(y)), Abs(z)), Abs(d))
        s == IF d < 0 THEN -1 ELSE 1
    IN  <<(s * x) \div g, (s * y) \div g, (s * z) \div g, (s * d) \div g>>

VAdd(u, v) ==
    Vec(u[1] * v[4] + v[1] * u[4], u[2] * v[4] + v[2] * u[4],
        u[3] * v[4] + v[3] * u[4], u[4] * v[4])
VSub(u, v) ==
    Vec(u[1] * v[4] - v[1] * u[4], u[2] * v[4] - v[2] * u[4],
        u[3] * v[4] - v[3] * u[4], u[4] * v[4])
VNeg(v) == <<-v[1], -v[2], -v[3], v[4]>>
VScale(r, v) == Vec(r[1] * v[1], r[1] * v[2], r[1] * v[3], r[2] * v[4])
Dot(u, v) == Rat(u[1] * v[1] + u[2] * v[2] + u[3] * v[3], u[4] * v[4])
Cross(u, v) ==
    Vec(u[2] * v[3] - u[3] * v[2], u[3] * v[1] - u[1] * v[3],
        u[1] * v[2] - u[2] * v[1], u[4] * v[4])

\* Largest k in lo..hi with k*k <= n (lo*lo <= n < (hi+1)*(hi+1)).
RECURSIVE ISqrtIn(_, _, _)
ISqrtIn(n, lo, hi) ==
    IF lo = hi THEN lo
    ELSE LET mid == (lo + hi + 1) \div 2
         IN  IF mid * mid <= n THEN ISqrtIn(n, mid, hi)
             ELSE ISqrtIn(n, lo, mid - 1)

\* An upper bound of the integer square root that keeps k*k in range.
RECURSIVE SqrtCap(_, _)
SqrtCap(n, k) == IF k * k > n THEN k ELSE SqrtCap(n, 2 * k)

ISqrt(n) == ISqrtIn(n, 0, SqrtCap(n, 1))
IsSquare(n) == ISqrt(n) * ISqrt(n) = n

\* math.sqrt of a rational q >= 0.
Sqrt(q) ==
    IF IsSquare(q[1]) /\ IsSquare(q[2])
    THEN Rat(ISqrt(q[1]), ISqrt(q[2]))
    ELSE Rat(ISqrt((q[1] * SqrtGrid * SqrtGrid) \div q[2]), SqrtGrid)

\* int(): truncation toward zero of a screen coordinate given in half pixels.
IntTrunc(h) == IF h >= 0 THEN h \div 2 ELSE -((-h) \div 2)

\* A Python value used as a condition (optionVar flags are the ints 0 and 1).
Truthy(v) == v # 0

\* --------------------------------------------------------------- constants

SPEED_SLOW_VALUE == <<1, 1000>>
SPEED_FAST_VALUE == <<1, 100>>

WorldUp == <<0, 1, 0, 1>>

\* ------------------------------------------------------------------- scene

\* The node the user places, and what else the cursor can be over.
Obj == "obj"
Meshes == {"floor"}
NonMeshes == {"curve"}
Nothing == "nothing"

\* What closestIntersection and getClosestNormal return for the view ray of
\* a cursor position: hit point, unit face normal, and the view direction
\* returned by viewToWorld.
Sample1 ==
    [hitPoint |-> <<0, 0, 0, 1>>, faceNormal |-> <<0, 1, 0, 1>>,
     worldVector |-> <<3, -4, 0, 1>>]
Sample2 ==
    [hitPoint |-> <<3, 0, 0, 1>>, faceNormal |-> <<0, 0, 1, 1>>,
     worldVector |-> <<0, 0, -1, 1>>]
Samples == {Sample1, Sample2}
\* The ray does not meet the mesh: the hit point has no elements. The view
\* direction is known all the same.
Miss ==
    [hitPoint |-> <<>>, faceNormal |-> <<0, 1, 0, 1>>,
     worldVector |-> <<0, 0, -1, 1>>]

\* Cursor positions of a place-mode drag: the node under the cursor and the
\* outcome of the ray cast against the resolved mesh.
Cursors ==
    [under : {Obj} \cup Meshes, isect : Samples \cup {Miss}]
        \cup [under : {Nothing} \cup NonMeshes, isect : {Miss}]
NoCursor == [under |-> Nothing, isect |-> Miss]

\* Screen x coordinates reported by the dragger context, in half pixels.
AnchorPoints == {1001, 2000}
DragPoints == {0, 2000, 3001}

Modifiers == {"none", "shift", "ctrl"}

\* Active selection lists at press: empty, or the node to place.
Selections == {<<>>, <<Obj>>}

\* The transform of the node before the tool is used.
InitialXform ==
    [t |-> <<0, 4, 0, 1>>,
     r |-> << <<1, 0, 0, 1>>, <<0, 1, 0, 1>>, <<0, 0, 1, 1>> >>,
     s |-> <<2, 1, 1, 1>>]

\* Preference values found in the optionVar store when the tool is created.
StoredPrefs ==
    { [axis |-> 2, invert |-> 1, translate |-> 1, rotate |-> 1,
       speedSlow |-> SPEED_SLOW_VALUE, speedFast |-> SPEED_FAST_VALUE],
      [axis |-> 0, invert |-> 0, translate |-> 1, rotate |-> 0,
       speedSlow |-> SPEED_SLOW_VALUE, speedFast |-> SPEED_FAST_VALUE],
      [axis |-> 1, invert |-> 1, translate |-> 0, rotate |-> 1,
       speedSlow |-> SPEED_SLOW_VALUE, speedFast |-> SPEED_FAST_VALUE],
      [axis |-> 2, invert |-> 0, translate |-> 0, rotate |-> 0,
       speedSlow |-> SPEED_SLOW_VALUE, speedFast |-> SPEED_FAST_VALUE] }

\* ------------------------------------------------------------------- state

VARIABLES
    dag,          \* self._dag: the node to place, resolved at press
    meshDag,      \* self._meshDag: the mesh the gesture drags on
    isSet,        \* self._isSet: a place has been performed ("armed")
    reflPoint,    \* self._reflPoint
    reflVector,   \* self._reflVector
    dist,         \* self._dist: base distance
    moveDist,     \* self._moveDist
    axis, invert, translate, rotate, speedSlow, speedFast,
    optionVars,   \* the host's preference store
    active,       \* the dragger context is the current tool
    phase,        \* "idle" or "pressed": position in the gesture
    anchorPoint,  \* the dragger context's anchor x of the gesture
    xform,        \* the world transform of the node to place
    objKind,      \* "mesh" or "light": the shape under the node to place
    fault,        \* an exception has reached the caller
    drags,        \* drag callbacks so far
    ev,           \* the last callback and its inputs
    hist,         \* what earlier callbacks did (history, not program state)
    \* quickZoom.py
    mfn,          \* self._mfn: the camera of the view, attached at press
    width,        \* self._width: viewport width cached at press
    height,       \* self._height: viewport height cached at press
    ratio,        \* self._ratio: camera aspect ratio cached at press
    hPan,         \* self._hPan: horizontal pan cached at press
    vPan,         \* self._vPan: vertical pan cached at press
    startX,       \* self._startX
    startY,       \* self._startY
    endX,         \* self._endX
    endY,         \* self._endY
    camera,       \* the attributes of the camera of the active view
    viewport,     \* the size of the active view, in pixels
    zActive,      \* the quick zoom context is the current tool
    zPhase,       \* "idle" or "pressed": position in the gesture
    zAnchor,      \* the dragger context's anchor point of the gesture
    zDrags,       \* drag callbacks so far
    zGestures,    \* press callbacks so far
    zEv,          \* the last callback of the quick zoom tool
    zHist,        \* what earlier callbacks did (history, not program state)
    \* methods called directly
    mathIn,       \* the last method called directly, its arguments and
                  \* the axis preferences at the call
    reflected,    \* what _reflectionVector returned, if it was the last
    basis         \* the rows _quatFromVector built, if it was the last

prefVars == <<axis, invert, translate, rotate, speedSlow, speedFast>>
reflVars == <<reflPoint, reflVector, dist, moveDist, isSet>>
placerVars ==
    <<dag, meshDag, reflVars, prefVars, optionVars, active, phase,
      anchorPoint, xform, objKind, fault, drags, ev, hist>>
cacheVars == <<width, height, ratio, hPan, vPan>>
rectVars == <<startX, startY, endX, endY>>
zoomVars ==
    <<mfn, cacheVars, rectVars, camera, viewport, zActive, zPhase, zAnchor,
      zDrags, zGestures, zEv, zHist>>
mathVars == <<mathIn, reflected, basis>>
vars == <<placerVars, zoomVars, mathVars>>

Event(op, mod, x, cursor, mesh, wrote) ==
    [op |-> op, mod |-> mod, x |-> x, under |-> cursor.under,
     isect |-> cursor.isect, mesh |-> mesh, wrote |-> wrote]

\* ------------------------------------------------------------ pure methods

\* Mutant: the square root is not taken.
DistanceSquared(point1, point2) ==
    LET d == VSub(point1, point2)
    IN  Dot(d, d)

\* _distance
Distance(point1, point2) ==
    LET d == VSub(point1, point2)
    IN  Sqrt(Dot(d, d))

\* MVector.normalize; a zero vector is left as it is.
Normalize(v) ==
    LET len == Sqrt(Dot(v, v))
    IN  IF len = RZero THEN v ELSE VScale(<<len[2], len[1]>>, v)

\* Mutant: the view vector loses its normal component once, not twice.
ReflectionVectorProjected(viewVector, faceNormal) ==
    LET perp == Dot(viewVector, faceNormal)
    IN  VSub(viewVector, VScale(perp, faceNormal))

\* Mutant: the normal component is added twice instead of taken off.
ReflectionVectorAdded(viewVector, faceNormal) ==
    LET doublePerp == RMul(RInt(2), Dot(viewVector, faceNormal))
    IN  VAdd(viewVector, VScale(doublePerp, faceNormal))

\* Mutant: the normal component is taken off three times.
ReflectionVectorTripled(viewVector, faceNormal) ==
    LET triplePerp == RMul(RInt(3), Dot(viewVector, faceNormal))
    IN  VSub(viewVector, VScale(triplePerp, faceNormal))

\* _reflectionVector
ReflectionVector(viewVector, faceNormal) ==
    LET doublePerp == RMul(RInt(2), Dot(viewVector, faceNormal))
    IN  VSub(viewVector, VScale(doublePerp, faceNormal))

\* _quatFromVector: the rotation, given by the rows of its matrix.
QuatFromVector(vector) ==
    LET cross1 == Normalize(Cross(vector, WorldUp))
        cross2 == Normalize(Cross(vector, cross1))
    IN  IF axis = 0
        THEN << IF Truthy(invert) THEN VNeg(VNeg(vector)) ELSE VNeg(vector),
                VNeg(cross2), cross1 >>
        ELSE IF axis = 1
        THEN << VNeg(cross2),
                IF Truthy(invert) THEN VNeg(VNeg(vector)) ELSE VNeg(vector),
                cross1 >>
        ELSE << IF Truthy(invert) THEN VNeg(cross1) ELSE cross1,
                VNeg(cross2),
                IF Truthy(invert) THEN VNeg(vector) ELSE vector >>

\* _asDagPath(None): the first node of the active selection, if any.
AsDagPath(sel) == IF Len(sel) > 0 THEN sel[1] ELSE None

IsMesh(node) == node \in Meshes \/ (node = Obj /\ objKind = "mesh")

\* _getMesh: the mesh to cast the view ray against.
GetMesh(under) ==
    IF under = Nothing THEN None
    ELSE IF under = dag /\ meshDag # None THEN meshDag
    ELSE IF ~IsMesh(under) THEN None
    ELSE under

\* Mutant: a ray that misses is reported as a hit at the world origin.
ClosestIntersectionOrigin(dagPath, cursor) ==
    IF Len(cursor.isect.hitPoint) = 0
    THEN <<0, 0, 0, 1>>
    ELSE cursor.isect.hitPoint

\* _closestIntersection: the tuple's first element, the hit point.
ClosestIntersection(dagPath, cursor) == cursor.isect.hitPoint

\* ----------------------------------------------------------------- actions

\* History kept for stating properties: the selection and the move distance
\* at the last press, whether a place has succeeded since that press and
\* since the tool was constructed or last exited, whether the tool has been
\* exited since the last successful place, and what that place computed.
InitialHist ==
    [sel |-> <<>>, moveAtPress |-> RZero, placedInGesture |-> FALSE,
     placedSince |-> FALSE, deactivated |-> FALSE,
     placePoint |-> NoVector, placeVector |-> NoVector, placeDist |-> RZero]

\* Mutant: the tool object starts armed.
PlaceReflectionInitArmed ==
    /\ dag = None
    /\ meshDag = None
    /\ isSet = TRUE
    /\ reflPoint = NoVector
    /\ dist = RZero
    /\ moveDist = RZero
    /\ reflVector = NoVector
    /\ axis = 2
    /\ invert = 1
    /\ translate = 1
    /\ rotate = 1
    /\ speedSlow = SPEED_SLOW_VALUE
    /\ speedFast = SPEED_FAST_VALUE
    /\ optionVars \in StoredPrefs
    /\ active = FALSE
    /\ phase = "idle"
    /\ anchorPoint = 0
    /\ xform = InitialXform
    /\ objKind \in {"mesh", "light"}
    /\ fault = FALSE
    /\ drags = 0
    /\ ev = Event("init", "none", 0, NoCursor, None, FALSE)
    /\ hist = InitialHist

\* PlaceReflection.__init__, and the host before the tool is used.
PlaceReflectionInit ==
    /\ dag = None
    /\ meshDag = None
    /\ isSet = FALSE
    /\ reflPoint = NoVector
    /\ dist = RZero
    /\ moveDist = RZero
    /\ reflVector = NoVector
    /\ axis = 2
    /\ invert = 1
    /\ translate = 1
    /\ rotate = 1
    /\ speedSlow = SPEED_SLOW_VALUE
    /\ speedFast = SPEED_FAST_VALUE
    /\ optionVars \in StoredPrefs
    /\ active = FALSE
    /\ phase = "idle"
    /\ anchorPoint = 0
    /\ xform = InitialXform
    /\ objKind \in {"mesh", "light"}
    /\ fault = FALSE
    /\ drags = 0
    /\ ev = Event("init", "none", 0, NoCursor, None, FALSE)
    /\ hist = InitialHist

\* _getOptionVars
GetOptionVars ==
    /\ axis' = optionVars.axis
    /\ invert' = optionVars.invert
    /\ translate' = optionVars.translate
    /\ rotate' = optionVars.rotate
    /\ speedSlow' = optionVars.speedSlow
    /\ speedFast' = optionVars.speedFast

\* create: the context becomes the current tool (the host runs _initialize,
\* which only shows a message) and the preferences are read.
Create ==
    /\ ~active
    /\ active' = TRUE
    /\ GetOptionVars
    /\ ev' = Event("create", "none", 0, NoCursor, None, FALSE)
    /\ UNCHANGED <<dag, meshDag, reflVars, optionVars, phase, anchorPoint,
                   xform, objKind, fault, drags, hist>>
    /\ UNCHANGED <<zoomVars, mathVars>>

\* Mutant: _press leaves the base distance of the last place.
PressDistanceKept(sel) == dist

\* Mutant: _press does not take over a move distance of zero.
PressDistanceUnlessZero(sel) ==
    IF AsDagPath(sel) = None \/ moveDist = RZero THEN dist ELSE moveDist

\* The base distance _press leaves for the gesture.
PressDistance(sel) == IF AsDagPath(sel) = None THEN dist ELSE moveDist

\* _press, with the active selection list and the anchor point of the gesture.
Press(sel, anchor) ==
    /\ active
    /\ phase = "idle"
    /\ phase' = "pressed"
    /\ anchorPoint' = anchor
    /\ dag' = AsDagPath(sel)
    /\ dist' = PressDistance(sel)
    /\ ev' = Event("press", "none", IntTrunc(anchor), NoCursor, None, FALSE)
    /\ hist' = [hist EXCEPT !.sel = sel, !.moveAtPress = moveDist,
                            !.placedInGesture = FALSE]
    /\ UNCHANGED <<meshDag, reflPoint, reflVector, moveDist, isSet, prefVars,
                   optionVars, active, xform, objKind, fault, drags>>
    /\ UNCHANGED <<zoomVars, mathVars>>

\* Mutant: translation and rotation are written whatever the preferences.
PlacedMatrixAlways(mat, point, vector, distance) ==
    [t |-> VAdd(VScale(distance, vector), point),
     r |-> QuatFromVector(vector),
     s |-> mat.s]

\* The matrix _place hands to xform: the world matrix with the translation
\* and the rotation replaced as the preferences ask.
PlacedMatrix(mat, point, vector, distance) ==
    [t |-> IF Truthy(translate)
           THEN VAdd(VScale(distance, vector), point)
           ELSE mat.t,
     r |-> IF Truthy(rotate) THEN QuatFromVector(vector) ELSE mat.r,
     s |-> mat.s]

\* Mutant: the speeds of shift and ctrl are swapped.
MovedDistanceSwapped(modifier, xPosStart, xPos) ==
    LET speedVal == IF modifier = "shift" THEN speedSlow ELSE speedFast
        dragDist == RMul(RInt(xPos - xPosStart), speedVal)
    IN  RMul(dist, RAdd(ROne, dragDist))

\* Mutant: the drag is measured from the current x back to the anchor.
MovedDistanceReversed(modifier, xPosStart, xPos) ==
    LET speedVal == IF modifier = "shift" THEN speedFast ELSE speedSlow
        dragDist == RMul(RInt(xPosStart - xPos), speedVal)
    IN  RMul(dist, RAdd(ROne, dragDist))

\* The distance of the move mode for a drag from xPosStart to xPos.
MovedDistance(modifier, xPosStart, xPos) ==
    LET speedVal == IF modifier = "shift" THEN speedFast ELSE speedSlow
        dragDist == RMul(RInt(xPos - xPosStart), speedVal)
    IN  RMul(dist, RAdd(ROne, dragDist))

\* Mutant: the move mode turns the reflection vector around.
MoveModeTurning(modifier, xPosStart, xPos) ==
    [reflPoint |-> reflPoint, reflVector |-> VNeg(reflVector), dist |-> dist,
     moveDist |-> MovedDistance(modifier, xPosStart, xPos)]

\* The reflection state the move mode leaves: only the move distance is new.
MoveMode(modifier, xPosStart, xPos) ==
    [reflPoint |-> reflPoint, reflVector |-> reflVector, dist |-> dist,
     moveDist |-> MovedDistance(modifier, xPosStart, xPos)]

\* Mutant: the move mode is entered whenever a reflection point is stored.
MoveModeArmedByPoint == reflPoint # NoVector

\* The condition under which _place enters the move mode.
MoveModeArmed == isSet

\* Whether _place reads an attribute of self._dag on its way.
UsesDag(modifier, cursor) ==
    IF modifier = "none" THEN cursor.under # Nothing ELSE MoveModeArmed

\* _place
Place(startPoint, point, modifier, cursor) ==
    LET xPos == IntTrunc(point)
        dagPath == GetMesh(cursor.under)
        intersection == ClosestIntersection(dagPath, cursor)
        viewVector == Normalize(cursor.isect.worldVector)
        pos == xform.t
        newDist == Distance(intersection, pos)
        newVector == ReflectionVector(viewVector, cursor.isect.faceNormal)
        moved == MoveMode(modifier, IntTrunc(startPoint), xPos)
    IN  IF dag = None /\ UsesDag(modifier, cursor)
        THEN \* an attribute of None is read: AttributeError
             /\ fault' = TRUE
             /\ moveDist' = IF modifier = "none" THEN moveDist ELSE moved.moveDist
             /\ ev' = Event("drag", modifier, xPos, cursor, None, FALSE)
             /\ UNCHANGED <<meshDag, reflPoint, reflVector, dist, isSet, xform,
                            hist>>
        ELSE IF modifier = "none"
        THEN IF dagPath = None
             THEN /\ ev' = Event("drag", modifier, xPos, cursor, None, FALSE)
                  /\ UNCHANGED <<meshDag, reflVars, xform, fault, hist>>
             ELSE IF Len(intersection) = 0
             THEN /\ meshDag' = dagPath
                  /\ ev' = Event("drag", modifier, xPos, cursor, dagPath, FALSE)
                  /\ UNCHANGED <<reflVars, xform, fault, hist>>
             ELSE /\ meshDag' = dagPath
                  /\ reflPoint' = intersection
                  /\ reflVector' = newVector
                  /\ dist' = newDist
                  /\ moveDist' = newDist
                  /\ isSet' = TRUE
                  /\ xform' = PlacedMatrix(xform, intersection, newVector, newDist)
                  /\ ev' = Event("drag", modifier, xPos, cursor, dagPath, TRUE)
                  /\ hist' = [hist EXCEPT !.placedInGesture = TRUE,
                                          !.placedSince = TRUE,
                                          !.deactivated = FALSE,
                                          !.placePoint = intersection,
                                          !.placeVector = newVector,
                                          !.placeDist = newDist]
                  /\ UNCHANGED fault
        ELSE IF MoveModeArmed
        THEN /\ reflPoint' = moved.reflPoint
             /\ reflVector' = moved.reflVector
             /\ dist' = moved.dist
             /\ moveDist' = moved.moveDist
             /\ xform' = PlacedMatrix(xform, moved.reflPoint, moved.reflVector,
                                      moved.moveDist)
             /\ ev' = Event("drag", modifier, xPos, cursor, None, TRUE)
             /\ UNCHANGED <<meshDag, isSet, fault, hist>>
        ELSE /\ ev' = Event("drag", modifier, xPos, cursor, None, FALSE)
             /\ UNCHANGED <<meshDag, reflVars, xform, fault, hist>>

\* Mutant: _drag does not look at the node resolved at press.
NothingToPlaceUnchecked == FALSE

\* The condition under which _drag returns at once.
NothingToPlace == dag = None

\* _drag, with the drag point, the modifier and what is under the cursor.
Drag(point, modifier, cursor) ==
    /\ active
    /\ phase = "pressed"
    /\ drags < MaxDrags
    /\ drags' = drags + 1
    /\ IF NothingToPlace
       THEN /\ ev' = Event("drag", modifier, IntTrunc(point), cursor, None, FALSE)
            /\ UNCHANGED <<meshDag, reflVars, xform, fault, hist>>
       ELSE Place(anchorPoint, point, modifier, cursor)
    /\ UNCHANGED <<dag, prefVars, optionVars, active, phase, anchorPoint,
                   objKind>>
    /\ UNCHANGED <<zoomVars, mathVars>>

\* Mutant: release also resets the armed flag and the move distance.
ReleaseDisarming ==
    /\ active
    /\ phase = "pressed"
    /\ phase' = "idle"
    /\ dag' = None
    /\ meshDag' = None
    /\ moveDist' = RZero
    /\ isSet' = FALSE
    /\ ev' = Event("release", "none", 0, NoCursor, None, FALSE)
    /\ UNCHANGED <<reflPoint, reflVector, dist, prefVars, optionVars, active,
                   anchorPoint, xform, objKind, fault, drags, hist>>
    /\ UNCHANGED <<zoomVars, mathVars>>

\* _release
Release ==
    /\ active
    /\ phase = "pressed"
    /\ phase' = "idle"
    /\ dag' = None
    /\ meshDag' = None
    /\ ev' = Event("release", "none", 0, NoCursor, None, FALSE)
    /\ UNCHANGED <<reflVars, prefVars, optionVars, active, anchorPoint, xform,
                   objKind, fault, drags, hist>>
    /\ UNCHANGED <<zoomVars, mathVars>>

\* Mutant: the tool is exited and stays armed.
FinalizeKeepingArmed ==
    /\ active
    /\ active' = FALSE
    /\ phase' = "idle"
    /\ moveDist' = RZero
    /\ ev' = Event("finalize", "none", 0, NoCursor, None, FALSE)
    /\ hist' = [hist EXCEPT !.placedSince = FALSE, !.deactivated = TRUE]
    /\ UNCHANGED <<dag, meshDag, reflPoint, reflVector, dist, isSet, prefVars,
                   optionVars, anchorPoint, xform, objKind, fault, drags>>
    /\ UNCHANGED <<zoomVars, mathVars>>

\* _finalize: the tool is exited, at any point of a gesture.
Finalize ==
    /\ active
    /\ active' = FALSE
    /\ phase' = "idle"
    /\ moveDist' = RZero
    /\ isSet' = FALSE
    /\ ev' = Event("finalize", "none", 0, NoCursor, None, FALSE)
    /\ hist' = [hist EXCEPT !.placedSince = FALSE, !.deactivated = TRUE]
    /\ UNCHANGED <<dag, meshDag, reflPoint, reflVector, dist, prefVars,
                   optionVars, anchorPoint, xform, objKind, fault, drags>>
    /\ UNCHANGED <<zoomVars, mathVars>>

\* =========================================================== quickZoom.py

\* ------------------------------------------------------------------ bounds

\* Total number of drag callbacks of the quick zoom tool explored.
MaxZoomDrags == 2

\* Total number of gestures of the quick zoom tool explored.
MaxGestures == 2

\* ------------------------------------------------------------------- scene

RDiv(a, b) == Rat(a[1] * b[2], a[2] * b[1])

\* Viewport sizes (portWidth, portHeight) and camera aspect ratios: a view
\* as wide as the camera, one narrower and one wider.
SameView == [w |-> 1920, h |-> 1080, aspectRatio |-> <<16, 9>>]
NarrowView == [w |-> 1000, h |-> 1000, aspectRatio |-> <<16, 9>>]
WideView == [w |-> 1920, h |-> 1080, aspectRatio |-> <<3, 2>>]

\* The views and film fits explored: every view with the fill fit, and
\* every other fit with one of the views.
Scenes ==
    { <<SameView, "fill">>, <<NarrowView, "fill">>, <<WideView, "fill">>,
      <<SameView, "horizontal">>, <<NarrowView, "overscan">>,
      <<WideView, "vertical">> }

Overscans == {<<13, 10>>}

\* The camera of the active view before the tool is used: pan/zoom is off,
\* with pan values left from an earlier use of the camera.
Camera(view, filmFit, overscan) ==
    [ortho |-> FALSE,
     panZoomEnabled |-> FALSE,
     horizontalPan |-> <<1, 10>>,
     verticalPan |-> <<-1, 20>>,
     zoom |-> ROne,
     overscan |-> overscan,
     horizontalFilmAperture |-> <<8, 5>>,
     verticalFilmAperture |-> <<9, 10>>,
     filmFit |-> filmFit,
     aspectRatio |-> view.aspectRatio]

\* Screen positions reported by the dragger context, in half pixels.
ZoomAnchors == { <<1921, 1081>> }
ZoomDragPoints == { <<1920, 1080>>, <<2881, 1620>>, <<960, 1621>> }

\* The camera attributes the tool writes.
PanAttrs == {"horizontalPan", "verticalPan"}
FramingAttrs == {"panZoomEnabled", "horizontalPan", "verticalPan", "zoom"}

ZoomEvent(op, mod, wrote, horizontal, raised) ==
    [op |-> op, mod |-> mod, wrote |-> wrote, horizontal |-> horizontal,
     raised |-> raised]

\* History kept for stating properties: the camera kind, the modifier and
\* the camera's pan values at the press of the gesture, whether that press
\* cached the view, whether pan/zoom was enabled then, and whether a drag
\* callback has run since that press.
InitialZoomHist ==
    [pressOrtho |-> FALSE, pressMod |-> "none", pressCached |-> FALSE,
     pressHPan |-> RZero, pressVPan |-> RZero, pressEnabled |-> FALSE,
     dragged |-> FALSE]

\* ------------------------------------------------------------ pure methods

\* Mutant: a view exactly as wide as the camera is fitted vertically.
IsHorizontalOrEqual ==
    LET portRatio == RDiv(width, height)
        fill == IF camera.filmFit = "fill"
                THEN IF ~RLess(ratio, portRatio) THEN FALSE ELSE TRUE
                ELSE TRUE
    IN  IF camera.filmFit = "vertical" THEN FALSE ELSE fill

\* _isHorizontal
IsHorizontal ==
    LET portRatio == RDiv(width, height)
        fill == IF camera.filmFit = "fill"
                THEN IF RLess(portRatio, ratio) THEN FALSE ELSE TRUE
                ELSE TRUE
    IN  IF camera.filmFit = "vertical" THEN FALSE ELSE fill

\* Mutant: the size is the signed difference of the two ends.
GetZoomSigned(sX, sY, eX, eY) ==
    LET start == IF IsHorizontal THEN sX ELSE eY
        end == IF IsHorizontal THEN eX ELSE sY
        size == end - start
    IN  IF IsHorizontal
        THEN RDiv(RInt(size), width)
        ELSE RDiv(RInt(size), height)

\* _getZoom, for the rectangle from (sX, sY) to (eX, eY).
GetZoom(sX, sY, eX, eY) ==
    LET start == IF IsHorizontal THEN sX ELSE eY
        end == IF IsHorizontal THEN eX ELSE sY
        size == IF end > start THEN end - start ELSE start - end
    IN  IF IsHorizontal
        THEN RDiv(RInt(size), width)
        ELSE RDiv(RInt(size), height)

\* Mutant: the zoom is written as computed.
ZoomFloorNone(zoom) == zoom

\* _zoomView, lines 298-299: a zoom that is not positive becomes 0.01.
ZoomFloor(zoom) == IF ~RLess(RZero, zoom) THEN <<1, 100>> ELSE zoom

\* Mutant: the centre of the region is taken relative to the anchor.
RegionCenterRelative(start, end) == Rat(end - start, 2)

\* _zoomView, lines 268-275: the centre of the dragged region along one
\* axis, before the letterbox offset is taken off.
RegionCenter(start, end) == RAdd(Rat(end - start, 2), RInt(start))

\* _zoomView, for the rectangle from (sX, sY) to (eX, eY): the values
\* written to horizontalPan, verticalPan and zoom.
ZoomView(sX, sY, eX, eY) ==
    LET overscan == camera.overscan
        apertureX == camera.horizontalFilmAperture
        apertureY == camera.verticalFilmAperture
        horizontal == IsHorizontal
        portWidth == IF horizontal THEN width ELSE RMul(height, ratio)
        portHeight == IF horizontal THEN RDiv(width, ratio) ELSE height
        viewCenterX == RDiv(portWidth, RInt(2))
        viewCenterY == RDiv(portHeight, RInt(2))
        regionCenterX ==
            IF horizontal
            THEN RegionCenter(sX, eX)
            ELSE RSub(RegionCenter(sX, eX),
                      RDiv(RSub(width, portWidth), RInt(2)))
        regionCenterY ==
            IF horizontal
            THEN RSub(RegionCenter(sY, eY),
                      RDiv(RSub(height, portHeight), RInt(2)))
            ELSE RegionCenter(sY, eY)
        deltaCenterX == RSub(regionCenterX, viewCenterX)
        deltaCenterY == RSub(regionCenterY, viewCenterY)
        offsetX == RMul(RDiv(deltaCenterX, portWidth), overscan)
        offsetY == RMul(RDiv(deltaCenterY, portHeight), overscan)
    IN  [panX |-> RMul(apertureX, offsetX),
         panY |-> RMul(apertureY, offsetY),
         zoom |-> ZoomFloor(RMul(GetZoom(sX, sY, eX, eY), overscan)),
         horizontal |-> horizontal]

\* Mutant: the view is dragged the other way.
PanReversed(sX, sY, eX, eY) ==
    LET deltaX == eX - sX
        deltaY == eY - sY
        zoom == camera.zoom
    IN  [hPan |-> RAdd(hPan, RMul(RMul(RInt(deltaX), <<81, 100000>>), zoom)),
         vPan |-> RAdd(vPan, RMul(RMul(RInt(deltaY), <<81, 100000>>), zoom))]

\* _pan, for the rectangle from (sX, sY) to (eX, eY): the values written to
\* horizontalPan and verticalPan.
Pan(sX, sY, eX, eY) ==
    LET deltaX == sX - eX
        deltaY == sY - eY
        zoom == camera.zoom
    IN  [hPan |-> RAdd(hPan, RMul(RMul(RInt(deltaX), <<81, 100000>>), zoom)),
         vPan |-> RAdd(vPan, RMul(RMul(RInt(deltaY), <<81, 100000>>), zoom))]

\* ----------------------------------------------------------------- actions

\* Unit vectors with rational coordinates whose cross product with the world
\* up vector has a rational length, and the two unit vectors parallel to
\* world up.
ObliqueVectors ==
    { <<1, 0, 0, 1>>, <<0, 0, 1, 1>>, <<0, 0, -1, 1>>, <<3, 4, 0, 5>>,
      <<-3, -4, 0, 5>>, <<0, -4, 3, 5>>, <<4, 0, -3, 5>>, <<3, 12, 4, 13>>,
      <<-4, -12, 3, 13>>, <<9, 8, 12, 17>> }
UpVectors == { <<0, 1, 0, 1>>, <<0, -1, 0, 1>> }
UnitVectors == ObliqueVectors \cup UpVectors

\* The state before any of the two methods has been called.
MathInit ==
    /\ mathIn = [op |-> "none", v |-> WorldUp, n |-> WorldUp, axis |-> 2,
                 invert |-> 1]
    /\ reflected = NoVector
    /\ basis = <<>>

\* QuickZoom.__init__, and the host before the tool is used.
QuickZoomInit ==
    /\ mfn = None
    /\ width = RZero
    /\ height = RZero
    /\ ratio = RZero
    /\ hPan = RZero
    /\ vPan = RZero
    /\ startX = 0
    /\ startY = 0
    /\ endX = 0
    /\ endY = 0
    /\ zActive = FALSE
    /\ zPhase = "idle"
    /\ zAnchor = <<0, 0>>
    /\ zDrags = 0
    /\ zGestures = 0
    /\ zEv = ZoomEvent("init", "none", {}, FALSE, FALSE)
    /\ zHist = InitialZoomHist

\* Both tool objects after the module is loaded, with the quick zoom tool
\* left alone.
Init ==
    /\ PlaceReflectionInit
    /\ QuickZoomInit
    /\ viewport = [w |-> 1920, h |-> 1080]
    /\ camera = Camera([aspectRatio |-> <<16, 9>>], "fill", ROne)
    /\ MathInit

\* Both tool objects after the module is loaded, with the placer left alone.
InitZoom ==
    /\ PlaceReflectionInit
    /\ optionVars.axis = 2 /\ optionVars.invert = 1
    /\ objKind = "mesh"
    /\ QuickZoomInit
    /\ \E scene \in Scenes, overscan \in Overscans :
           /\ viewport = [w |-> scene[1].w, h |-> scene[1].h]
           /\ camera = Camera(scene[1], scene[2], overscan)
    /\ MathInit

\* create: the context becomes the current tool; _initialize only shows a
\* message.
ZoomCreate ==
    /\ ~zActive
    /\ zActive' = TRUE
    /\ zEv' = ZoomEvent("create", "none", {}, FALSE, FALSE)
    /\ UNCHANGED <<mfn, cacheVars, rectVars, camera, viewport, zPhase,
                   zAnchor, zDrags, zGestures, zHist>>
    /\ UNCHANGED <<placerVars, mathVars>>

\* The user makes another view the active one, or changes the camera of the
\* view: _press finds an orthographic or a perspective camera.
LookThrough(ortho) ==
    /\ zPhase = "idle"
    /\ camera.ortho # ortho
    /\ camera' = [camera EXCEPT !.ortho = ortho]
    /\ zEv' = ZoomEvent("look", "none", {}, FALSE, FALSE)
    /\ UNCHANGED <<mfn, cacheVars, rectVars, viewport, zActive, zPhase,
                   zAnchor, zDrags, zGestures, zHist>>
    /\ UNCHANGED <<placerVars, mathVars>>

\* Mutant: the toggle switches pan/zoom on.
TogglePanZoomOn(cam) == [cam EXCEPT !.panZoomEnabled = TRUE]

\* togglePanZoom: the camera after the toggle, from the camera before it.
TogglePanZoom(cam) == [cam EXCEPT !.panZoomEnabled = ~cam.panZoomEnabled]

\* Mutant: _press starts the rectangle of the gesture at the anchor point.
RectangleAtPressAnchored(anchor) ==
    <<IntTrunc(anchor[1]), IntTrunc(anchor[2]),
      IntTrunc(anchor[1]), IntTrunc(anchor[2])>>

\* The drag rectangle _press leaves: it assigns none of the four fields.
RectangleAtPress(anchor) == <<startX, startY, endX, endY>>

\* _press, with the modifier and the anchor point of the gesture.
ZoomPress(modifier, anchor) ==
    /\ zActive
    /\ zPhase = "idle"
    /\ zGestures < MaxGestures
    /\ zGestures' = zGestures + 1
    /\ zPhase' = "pressed"
    /\ zAnchor' = anchor
    /\ mfn' = "camera"
    /\ zHist' = [pressOrtho |-> camera.ortho, pressMod |-> modifier,
                 pressCached |-> ~camera.ortho /\ modifier # "ctrl",
                 pressHPan |-> camera.horizontalPan,
                 pressVPan |-> camera.verticalPan,
                 pressEnabled |-> camera.panZoomEnabled,
                 dragged |-> FALSE]
    /\ IF camera.ortho
       THEN /\ zEv' = ZoomEvent("press", modifier, {}, FALSE, FALSE)
            /\ UNCHANGED <<cacheVars, camera>>
       ELSE IF modifier = "ctrl"
       THEN /\ camera' = TogglePanZoom(camera)
            /\ zEv' = ZoomEvent("press", modifier, {"panZoomEnabled"}, FALSE,
                                FALSE)
            /\ UNCHANGED cacheVars
       ELSE /\ ratio' = camera.aspectRatio
            /\ hPan' = camera.horizontalPan
            /\ vPan' = camera.verticalPan
            /\ width' = RInt(viewport.w)
            /\ height' = RInt(viewport.h)
            /\ zEv' = ZoomEvent("press", modifier, {}, FALSE, FALSE)
            /\ UNCHANGED camera
    /\ startX' = RectangleAtPress(anchor)[1]
    /\ startY' = RectangleAtPress(anchor)[2]
    /\ endX' = RectangleAtPress(anchor)[3]
    /\ endY' = RectangleAtPress(anchor)[4]
    /\ UNCHANGED <<viewport, zActive, zDrags>>
    /\ UNCHANGED <<placerVars, mathVars>>

\* Mutant: shift pans whether pan/zoom is enabled or not.
PanAllowedAlways(modifier) == modifier = "shift"

\* _drag, line 200: when a drag pans the view.
PanAllowed(modifier) == modifier = "shift" /\ camera.panZoomEnabled

\* _drag, with the drag point and the modifier.
ZoomDrag(point, modifier) ==
    LET sX == IntTrunc(zAnchor[1])
        sY == IntTrunc(zAnchor[2])
        eX == IntTrunc(point[1])
        eY == IntTrunc(point[2])
        pan == Pan(sX, sY, eX, eY)
    IN  /\ zActive
        /\ zPhase = "pressed"
        /\ zDrags < MaxZoomDrags
        /\ zDrags' = zDrags + 1
        /\ startX' = sX
        /\ startY' = sY
        /\ endX' = eX
        /\ endY' = eY
        /\ IF PanAllowed(modifier)
           THEN /\ camera' = [camera EXCEPT !.horizontalPan = pan.hPan,
                                            !.verticalPan = pan.vPan]
                /\ zEv' = ZoomEvent("drag", modifier, PanAttrs, FALSE, FALSE)
           ELSE /\ zEv' = ZoomEvent("drag", modifier, {}, FALSE, FALSE)
                /\ UNCHANGED camera
        /\ zHist' = [zHist EXCEPT !.dragged = TRUE]
        /\ UNCHANGED <<mfn, cacheVars, viewport, zActive, zPhase, zAnchor,
                       zGestures>>
        /\ UNCHANGED <<placerVars, mathVars>>

\* Mutant: only ctrl keeps a release from framing the view.
FramesOnReleaseUnlessCtrl(modifier) == modifier # "ctrl"

\* _release, line 210: when a release frames the view.
FramesOnRelease(modifier) == modifier = "none"

\* The statements of _release, with the modifier.
ZoomReleaseBody(modifier) ==
    LET framing == ZoomView(startX, startY, endX, endY)
    IN  /\ zPhase' = "idle"
        /\ IF ~FramesOnRelease(modifier)
           THEN /\ zEv' = ZoomEvent("release", modifier, {}, FALSE, FALSE)
                /\ UNCHANGED camera
           ELSE IF mfn = None \/ height = RZero
           THEN \* _zoomView reads self._mfn.overscan: AttributeError while
                \* _mfn is None; _isHorizontal divides by the height:
                \* ZeroDivisionError
                /\ zEv' = ZoomEvent("release", modifier, {}, FALSE, TRUE)
                /\ UNCHANGED camera
           ELSE /\ camera' = [camera EXCEPT !.panZoomEnabled = TRUE,
                                            !.horizontalPan = framing.panX,
                                            !.verticalPan = framing.panY,
                                            !.zoom = framing.zoom]
                /\ zEv' = ZoomEvent("release", modifier, FramingAttrs,
                                    framing.horizontal, FALSE)
        /\ UNCHANGED <<mfn, cacheVars, rectVars, viewport, zActive, zAnchor,
                       zDrags, zGestures, zHist>>
        /\ UNCHANGED <<placerVars, mathVars>>

\* _release, run by the host at the end of a gesture.
ZoomRelease(modifier) ==
    /\ zActive
    /\ zPhase = "pressed"
    /\ ZoomReleaseBody(modifier)

\* _finalize: the tool is exited, at any point of a gesture.
ZoomFinalize ==
    /\ zActive
    /\ zActive' = FALSE
    /\ zPhase' = "idle"
    /\ zEv' = ZoomEvent("finalize", "none", {}, FALSE, FALSE)
    /\ UNCHANGED <<mfn, cacheVars, rectVars, camera, viewport, zAnchor,
                   zDrags, zGestures, zHist>>
    /\ UNCHANGED <<placerVars, mathVars>>

NextZoom ==
    \/ ZoomCreate
    \/ \E ortho \in BOOLEAN : LookThrough(ortho)
    \/ \E modifier \in Modifiers, anchor \in ZoomAnchors :
           ZoomPress(modifier, anchor)
    \/ \E point \in ZoomDragPoints, modifier \in Modifiers :
           ZoomDrag(point, modifier)
    \/ \E modifier \in Modifiers : ZoomRelease(modifier)
    \/ ZoomFinalize

SpecZoom == InitZoom /\ [][NextZoom]_vars

\* ================================================= methods called directly

\* setAxis
SetAxis(value) ==
    /\ axis' = value
    /\ optionVars' = [optionVars EXCEPT !.axis = value]
    /\ UNCHANGED <<invert, translate, rotate, speedSlow, speedFast>>
    /\ UNCHANGED <<dag, meshDag, reflVars, active, phase, anchorPoint, xform,
                   objKind, fault, drags, ev, hist>>
    /\ UNCHANGED <<zoomVars, mathVars>>

\* setInvert
SetInvert(value) ==
    /\ invert' = value
    /\ optionVars' = [optionVars EXCEPT !.invert = value]
    /\ UNCHANGED <<axis, translate, rotate, speedSlow, speedFast>>
    /\ UNCHANGED <<dag, meshDag, reflVars, active, phase, anchorPoint, xform,
                   objKind, fault, drags, ev, hist>>
    /\ UNCHANGED <<zoomVars, mathVars>>

\* setTranslate
SetTranslate(value) ==
    /\ translate' = value
    /\ optionVars' = [optionVars EXCEPT !.translate = value]
    /\ UNCHANGED <<axis, invert, rotate, speedSlow, speedFast>>
    /\ UNCHANGED <<dag, meshDag, reflVars, active, phase, anchorPoint, xform,
                   objKind, fault, drags, ev, hist>>
    /\ UNCHANGED <<zoomVars, mathVars>>

\* setRotate
SetRotate(value) ==
    /\ rotate' = value
    /\ optionVars' = [optionVars EXCEPT !.rotate = value]
    /\ UNCHANGED <<axis, invert, translate, speedSlow, speedFast>>
    /\ UNCHANGED <<dag, meshDag, reflVars, active, phase, anchorPoint, xform,
                   objKind, fault, drags, ev, hist>>
    /\ UNCHANGED <<zoomVars, mathVars>>

\* setSpeed: speed type 0 is the slow speed, any other the fast one.
SetSpeed(speedType, value) ==
    /\ IF speedType = 0
       THEN /\ speedSlow' = value
            /\ optionVars' = [optionVars EXCEPT !.speedSlow = value]
            /\ UNCHANGED speedFast
       ELSE /\ speedFast' = value
            /\ optionVars' = [optionVars EXCEPT !.speedFast = value]
            /\ UNCHANGED speedSlow
    /\ UNCHANGED <<axis, invert, translate, rotate>>
    /\ UNCHANGED <<dag, meshDag, reflVars, active, phase, anchorPoint, xform,
                   objKind, fault, drags, ev, hist>>
    /\ UNCHANGED <<zoomVars, mathVars>>

\* The values _setOptionVars writes.
DefaultOptionVars ==
    [axis |-> 2, invert |-> 1, translate |-> 1, rotate |-> 1,
     speedSlow |-> SPEED_SLOW_VALUE, speedFast |-> SPEED_FAST_VALUE]

\* _setOptionVars: every preference exists since __init__, so that only a
\* reset writes; the fields of the tool keep their values until the next
\* create.
SetOptionVars(reset) ==
    /\ optionVars' = IF reset THEN DefaultOptionVars ELSE optionVars
    /\ UNCHANGED <<dag, meshDag, reflVars, prefVars, active, phase,
                   anchorPoint, xform, objKind, fault, drags, ev, hist>>
    /\ UNCHANGED <<zoomVars, mathVars>>

\* _release of the placer, run while the tool is current and has seen no
\* press (the button went down before the tool became current).
ReleaseUnpressed ==
    /\ active
    /\ phase = "idle"
    /\ dag' = None
    /\ meshDag' = None
    /\ ev' = Event("release", "none", 0, NoCursor, None, FALSE)
    /\ UNCHANGED <<reflVars, prefVars, optionVars, active, phase, anchorPoint,
                   xform, objKind, fault, drags, hist>>
    /\ UNCHANGED <<zoomVars, mathVars>>

\* _release of the quick zoom, run while the tool is current and has seen
\* no press.
ZoomReleaseUnpressed(modifier) ==
    /\ zActive
    /\ zPhase = "idle"
    /\ ZoomReleaseBody(modifier)

\* _reflectionVector, called with a view vector and a face normal.
Reflect(viewVector, faceNormal) ==
    /\ mathIn' = [op |-> "reflect", v |-> viewVector, n |-> faceNormal,
                  axis |-> axis, invert |-> invert]
    /\ reflected' = ReflectionVector(viewVector, faceNormal)
    /\ basis' = <<>>
    /\ UNCHANGED <<placerVars, zoomVars>>

\* _quatFromVector, called with a reflection vector.
Orient(vector) ==
    /\ mathIn' = [op |-> "orient", v |-> vector, n |-> WorldUp,
                  axis |-> axis, invert |-> invert]
    /\ basis' = QuatFromVector(vector)
    /\ reflected' = NoVector
    /\ UNCHANGED <<placerVars, zoomVars>>

InitMath ==
    /\ PlaceReflectionInit
    /\ optionVars.axis = 2 /\ optionVars.invert = 1
    /\ objKind = "mesh"
    /\ QuickZoomInit
    /\ viewport = [w |-> 1920, h |-> 1080]
    /\ camera = Camera(SameView, "fill", ROne)
    /\ MathInit

NextMath ==
    \/ \E value \in {0, 1, 2} : SetAxis(value)
    \/ \E value \in {0, 1} : SetInvert(value)
    \/ \E viewVector \in UnitVectors, faceNormal \in UnitVectors :
           Reflect(viewVector, faceNormal)
    \/ \E vector \in UnitVectors : Orient(vector)

SpecMath == InitMath /\ [][NextMath]_vars

\* The arguments the setters are called with: the documented values and
\* values outside of them.
AxisValues == {0, 1, 2, 3}
SpeedValues == {SPEED_SLOW_VALUE, SPEED_FAST_VALUE, RZero}

\* Both tool objects after the module is loaded.
InitCalls ==
    /\ PlaceReflectionInit
    /\ objKind = "mesh"
    /\ QuickZoomInit
    /\ viewport = [w |-> 1920, h |-> 1080]
    /\ camera = Camera(SameView, "fill", ROne)
    /\ MathInit

\* The setters, the load and the reset of the preferences, and the tools
\* entered, released and exited with no press.
NextCalls ==
    \/ \E value \in AxisValues : SetAxis(value)
    \/ \E value \in {0, 1} : SetInvert(value)
    \/ \E value \in {0, 1} : SetTranslate(value)
    \/ \E value \in {0, 1} : SetRotate(value)
    \/ \E speedType \in {0, 1}, value \in SpeedValues :
           SetSpeed(speedType, value)
    \/ \E reset \in BOOLEAN : SetOptionVars(reset)
    \/ Create
    \/ ReleaseUnpressed
    \/ Finalize
    \/ ZoomCreate
    \/ \E modifier \in Modifiers : ZoomReleaseUnpressed(modifier)
    \/ ZoomFinalize

SpecCalls == InitCalls /\ [][NextCalls]_vars

\* ==================================================== specifications

Next ==
    \/ Create
    \/ \E sel \in Selections, anchor \in AnchorPoints : Press(sel, anchor)
    \/ \E c \in Cursors : Drag(anchorPoint, "none", c)
    \/ \E point \in DragPoints, modifier \in {"shift", "ctrl"} :
           Drag(point, modifier, NoCursor)
    \/ Release
    \/ Finalize

Spec == Init /\ [][Next]_vars

\* ------------------------------------------------------------------ claims

\* The callback that led to the next state.
DragStep == ev'.op = "drag"
MoveDragStep == ev'.op = "drag" /\ ev'.mod \in {"shift", "ctrl"}
PlaceDragStep == ev'.op = "drag" /\ ev'.mod = "none"
\* A place-mode drag that found a mesh and an intersection.
PlacedStep == PlaceDragStep /\ ev'.wrote

\* C1: a move-mode drag (shift or ctrl) while no place has succeeded since
\* the tool was constructed or last exited writes no transform and leaves the
\* reflection point, the reflection vector, the base distance, the move
\* distance and the armed flag as they were.
C1_UnarmedMoveIsNoOp ==
    [][ (MoveDragStep /\ ~hist.placedSince)
            => /\ ~ev'.wrote
               /\ UNCHANGED <<xform, reflPoint, reflVector, dist, moveDist, isSet>>
      ]_vars

\* C1 witness: with a node selected, the very first drag of the tool is a
\* shift drag, and nothing was written.
C1_Witness ==
    /\ ev.op = "drag" /\ ev.mod = "shift" /\ dag = Obj
    /\ ~hist.placedSince /\ ~hist.deactivated /\ drags = 1
    /\ ~ev.wrote /\ xform = InitialXform /\ reflPoint = NoVector

\* The move-mode speed the convention gives a modifier: shift is fast, ctrl
\* is slow.
SpeedOf(mod) == IF mod = "shift" THEN speedFast ELSE speedSlow

\* The drag's factor 1 + (currentX - anchorX) * speed.
DragFactor(mod, x) ==
    RAdd(ROne, RMul(RInt(x - IntTrunc(anchorPoint)), SpeedOf(mod)))

\* C2: a press that resolves a node sets the base distance to the move
\* distance the previous gesture ended with, and every acting move-mode drag
\* of the gesture (before any place-mode drag of it succeeds) yields that
\* distance times (1 + delta): the distance itself at currentX = anchorX.
C2_MoveContinuesFromLastMoveDistance ==
    [][ /\ (ev'.op = "press" /\ dag' # None) => dist' = moveDist
        /\ (MoveDragStep /\ ev'.wrote /\ ~hist.placedInGesture)
               => moveDist' = RMul(hist.moveAtPress, DragFactor(ev'.mod, ev'.x))
      ]_vars

\* C2 witness: after a gesture that moved the node away from the distance
\* stored by the place, a move-mode drag of the next gesture at the anchor x
\* yields the move distance the earlier gesture ended with.
C2_Witness ==
    /\ ev.op = "drag" /\ ev.mod \in {"shift", "ctrl"} /\ ev.wrote
    /\ ~hist.placedInGesture
    /\ ev.x = IntTrunc(anchorPoint)
    /\ moveDist = hist.moveAtPress
    /\ moveDist # hist.placeDist
    /\ moveDist # RZero

C4_MoveKeepsReflection ==
    [][ /\ MoveDragStep => UNCHANGED <<reflPoint, reflVector, dist, isSet>>
        /\ ~PlacedStep => /\ reflPoint' = hist.placePoint
                          /\ reflVector' = hist.placeVector
      ]_vars

\* C4 witness: in a gesture after the one that placed the node, a move-mode
\* drag has changed the move distance and the reflection is the placed one.
C4_Witness ==
    /\ ev.op = "drag" /\ ev.mod \in {"shift", "ctrl"} /\ ev.wrote
    /\ ~hist.placedInGesture
    /\ moveDist # hist.moveAtPress
    /\ reflPoint = hist.placePoint /\ reflPoint # NoVector
    /\ reflVector = hist.placeVector

\* C5 as stated: after every successful place-mode drag the node is at
\* hitPoint + R * d, d its distance to the hit point before the drag.
C5_PlacedAtReflectedPosition ==
    [][ PlacedStep
            => xform'.t = VAdd(VScale(Distance(ev'.isect.hitPoint, xform.t),
                                      reflVector'),
                               ev'.isect.hitPoint)
      ]_vars

\* C5 amended: after a successful place-mode drag the reflection vector R is
\* a unit vector and the node's distance to the reflection point is its
\* distance to the hit point before the drag; the node is at hitPoint + R * d
\* when affectTranslation is set, and where it was when it is not.
C5_PlacePreservesDistance ==
    [][ PlacedStep
            => /\ reflPoint' = ev'.isect.hitPoint
               /\ Dot(reflVector', reflVector') = ROne
               /\ Distance(reflPoint', xform'.t) = Distance(reflPoint', xform.t)
               /\ xform'.t =
                      IF Truthy(translate)
                      THEN VAdd(VScale(Distance(reflPoint', xform.t), reflVector'),
                                reflPoint')
                      ELSE xform.t
      ]_vars

\* C5 witness: a place-mode drag has moved the node to a new position at a
\* non-zero distance from the hit point.
C5_Witness ==
    /\ ev.op = "drag" /\ ev.mod = "none" /\ ev.wrote
    /\ Truthy(translate)
    /\ xform.t # InitialXform.t
    /\ moveDist # RZero
    /\ xform.t = VAdd(VScale(moveDist, reflVector), ev.isect.hitPoint)

\* C6: a drag that applies its result overwrites the translation only if
\* affectTranslation is set and the rotation only if affectRotation is set;
\* the scale, and the translation or the rotation whose preference is unset,
\* keep their values; a drag that applies nothing leaves the transform alone.
C6_OnlyEnabledComponentsWritten ==
    [][ DragStep
            => IF ev'.wrote
               THEN /\ xform'.s = xform.s
                    /\ xform'.t =
                           IF Truthy(translate)
                           THEN VAdd(VScale(moveDist', reflVector'), reflPoint')
                           ELSE xform.t
                    /\ xform'.r =
                           IF Truthy(rotate)
                           THEN QuatFromVector(reflVector')
                           ELSE xform.r
               ELSE xform' = xform
      ]_vars

\* C6 witness: with affectTranslation unset and affectRotation set, a drag
\* has turned the node and left it where it was, at its scale.
C6_Witness ==
    /\ ev.op = "drag" /\ ev.wrote
    /\ ~Truthy(translate) /\ Truthy(rotate)
    /\ xform.t = InitialXform.t
    /\ xform.r # InitialXform.r
    /\ xform.s = InitialXform.s

\* C7: in place mode the mesh the view ray is cast against is never the node
\* being placed; when that node is under the cursor the mesh resolved before
\* is used, in every drag of every gesture.
C7_SurfaceIsNeverThePlacedNode ==
    (ev.op = "drag" /\ ev.mod = "none" /\ dag # None) => ev.mesh # dag

\* C8: release clears the node and the mesh resolved for the gesture and
\* leaves the move distance, the armed flag, the reflection point and the
\* reflection vector as they were; the armed flag goes from true to false
\* in _finalize only.
C8_ReleaseKeepsSessionState ==
    [][ /\ ev'.op = "release"
               => /\ dag' = None /\ meshDag' = None
                  /\ UNCHANGED <<moveDist, isSet, reflPoint, reflVector>>
        /\ (isSet /\ ~isSet') => ev'.op = "finalize"
      ]_vars

\* C8 witness: the release of a gesture that placed and then moved the node.
C8_Witness ==
    /\ ev.op = "release" /\ hist.placedInGesture
    /\ dag = None /\ meshDag = None
    /\ isSet /\ moveDist # dist /\ moveDist # RZero
    /\ reflPoint # NoVector

\* C9: _finalize, at whatever point of a gesture, sets the move distance to 0
\* and the armed flag to false, and every move-mode drag after it is a no-op
\* until a place-mode drag succeeds.
C9_FinalizeDisarms ==
    [][ /\ ev'.op = "finalize" => (moveDist' = RZero /\ ~isSet')
        /\ (hist.deactivated /\ ev'.op # "drag") => ~isSet'
        /\ (hist.deactivated /\ MoveDragStep)
               => /\ ~ev'.wrote
                  /\ UNCHANGED <<xform, reflVars>>
      ]_vars

\* C9 witness: the node was placed, the tool was exited and entered again,
\* and a ctrl drag of a later gesture with the node selected did nothing.
C9_Witness ==
    /\ ev.op = "drag" /\ ev.mod = "ctrl" /\ dag = Obj
    /\ hist.deactivated /\ hist.placedInGesture = FALSE
    /\ reflPoint # NoVector
    /\ ~ev.wrote /\ ~isSet /\ moveDist = RZero

\* C10: when the selection is empty at press, every drag of the gesture, of
\* either mode and armed or not, writes no transform, leaves the reflection
\* state alone and raises nothing.
C10_NoSelectionIsNoOp ==
    [][ (DragStep /\ Len(hist.sel) = 0)
            => /\ ~ev'.wrote
               /\ UNCHANGED <<xform, reflVars, meshDag>>
               /\ ~fault'
      ]_vars

\* C10 witness: with the tool armed and nothing selected at press, a
\* place-mode drag over a mesh the ray hits did nothing.
C10_Witness ==
    /\ ev.op = "drag" /\ ev.mod = "none" /\ Len(hist.sel) = 0
    /\ ev.under \in Meshes /\ ev.isect \in Samples
    /\ isSet /\ ~ev.wrote /\ ~fault

\* C11: a place-mode drag with a node resolved at press, for which no mesh is
\* found under the cursor or the view ray misses the mesh found, writes no
\* transform and leaves the reflection point, the reflection vector, the base
\* distance, the move distance and the armed flag as they were.
C11_MissedPlaceIsNoOp ==
    [][ (PlaceDragStep /\ dag # None /\ ~fault'
            /\ (ev'.mesh = None \/ ev'.isect = Miss))
            => /\ ~ev'.wrote
               /\ UNCHANGED <<xform, reflVars>>
      ]_vars

\* C11 witness: with the tool armed by an earlier place, a place-mode drag
\* over a mesh that the view ray misses did nothing.
C11_Witness ==
    /\ ev.op = "drag" /\ ev.mod = "none" /\ dag = Obj
    /\ ev.under \in Meshes /\ ev.mesh \in Meshes /\ ev.isect = Miss
    /\ isSet /\ hist.placedSince /\ reflPoint = hist.placePoint
    /\ ~ev.wrote /\ ~fault

\* The whole-pixel x coordinates a drag is compared with: those of the drag
\* points, and the neighbours of the current x.
ComparedX(x) == {IntTrunc(p) : p \in DragPoints} \cup {x - 1, x + 1}

\* C27: in an armed move-mode drag with a positive speed and a positive
\* base distance, every larger whole-pixel x would give a strictly larger
\* move distance and every smaller x a strictly smaller one; and a drag that
\* follows a drag of the same gesture with the same modifier at a smaller x
\* leaves a strictly larger move distance.
C27_MoveDistanceMonotonic ==
    [][ (MoveDragStep /\ isSet /\ dag # None /\ RLess(RZero, dist)
            /\ RLess(RZero, SpeedOf(ev'.mod)))
            => /\ \A x \in ComparedX(ev'.x) :
                    /\ x > ev'.x
                        => RLess(moveDist',
                                 MovedDistance(ev'.mod, IntTrunc(anchorPoint),
                                               x))
                    /\ x < ev'.x
                        => RLess(MovedDistance(ev'.mod, IntTrunc(anchorPoint),
                                               x),
                                 moveDist')
               /\ (ev.op = "drag" /\ ev.mod = ev'.mod /\ ev.wrote
                        /\ ev.x < ev'.x)
                    => RLess(moveDist, moveDist')
               /\ (ev.op = "drag" /\ ev.mod = ev'.mod /\ ev.wrote
                        /\ ev.x > ev'.x)
                    => RLess(moveDist', moveDist)
      ]_vars

\* C27 witness: an armed ctrl drag to the right of the anchor left a move
\* distance larger than the positive base distance.
C27_Witness ==
    /\ ev.op = "drag" /\ ev.mod = "ctrl" /\ ev.wrote
    /\ ev.x > IntTrunc(anchorPoint)
    /\ RLess(RZero, dist) /\ RLess(dist, moveDist)

\* C30: after a place-mode drag that found a mesh and an intersection, the
\* base distance and the move distance both equal the Euclidean distance
\* from the position the node had before the drag to the hit point of the
\* drag, and the tool is armed.
C30_PlaceStoresDistance ==
    [][ PlacedStep
            => LET d == VSub(ev'.isect.hitPoint, xform.t)
               IN  /\ dist' = Sqrt(Dot(d, d))
                   /\ moveDist' = dist'
                   /\ reflPoint' = ev'.isect.hitPoint
                   /\ isSet'
      ]_vars

\* C30 witness: a second place-mode drag of a gesture measured a distance
\* that is neither zero nor the initial height of the node.
C30_Witness ==
    /\ ev.op = "drag" /\ ev.mod = "none" /\ ev.wrote
    /\ drags >= 2 /\ isSet
    /\ dist = moveDist /\ dist = hist.placeDist
    /\ dist # RZero /\ dist # <<4, 1>>

\* ------------------------------------------------------- quickZoom claims

\* The callback of the quick zoom tool that led to the next state.
ZoomPressStep == zEv'.op = "press"
ZoomDragStep == zEv'.op = "drag"
ZoomReleaseStep == zEv'.op = "release"
\* A release that framed the view.
FramedStep == ZoomReleaseStep /\ zEv'.wrote = FramingAttrs

RSign(a) == IF a[1] > 0 THEN 1 ELSE IF a[1] < 0 THEN -1 ELSE 0

\* What a shift drag adds to a pan value: pixels * 0.00081 * zoom.
PanOffset(pixels, zoom) == RMul(RMul(RInt(pixels), <<81, 100000>>), zoom)

\* C12: when the camera of the active view is orthographic at press, neither
\* the press nor any drag nor the release of that gesture, whatever the
\* modifier, writes a camera attribute, and no callback raises.
C12_OrthographicGestureIsNoOp ==
    [][ (zHist'.pressOrtho
            /\ (ZoomPressStep \/ ZoomDragStep \/ ZoomReleaseStep))
            => /\ zEv'.wrote = {}
               /\ camera' = camera
               /\ ~zEv'.raised
      ]_vars

\* C13: a press with ctrl on a perspective camera flips panZoomEnabled and
\* writes nothing else, and no later drag or release of that gesture writes
\* a camera attribute.
C13_CtrlPressEndsGesture ==
    [][ /\ (ZoomPressStep /\ zEv'.mod = "ctrl" /\ ~camera.ortho)
            => /\ zEv'.wrote = {"panZoomEnabled"}
               /\ camera' = [camera EXCEPT
                                !.panZoomEnabled = ~camera.panZoomEnabled]
        /\ ((ZoomDragStep \/ ZoomReleaseStep)
                /\ zHist.pressMod = "ctrl" /\ ~zHist.pressOrtho)
            => /\ zEv'.wrote = {}
               /\ camera' = camera
      ]_vars

\* C14: a release writes camera attributes only when its modifier is none;
\* in a gesture whose press read the view (perspective camera, modifier
\* other than ctrl) such a release sets panZoomEnabled and writes
\* horizontalPan, verticalPan and zoom, and a release with shift or ctrl
\* writes nothing.
C14_ReleaseFramesOnlyWithoutModifier ==
    [][ ZoomReleaseStep
            => /\ zEv'.mod # "none"
                    => (zEv'.wrote = {} /\ camera' = camera)
               /\ (zEv'.mod = "none" /\ zHist.pressCached)
                    => /\ zEv'.wrote = FramingAttrs
                       /\ ~zEv'.raised
                       /\ camera'.panZoomEnabled
                       /\ camera'.horizontalPan =
                              ZoomView(startX, startY, endX, endY).panX
                       /\ camera'.verticalPan =
                              ZoomView(startX, startY, endX, endY).panY
                       /\ camera'.zoom =
                              ZoomView(startX, startY, endX, endY).zoom
      ]_vars

\* C14 witness: a release without modifier, in a gesture pressed on a
\* perspective camera with pan/zoom off, switched pan/zoom on and wrote the
\* framing of a rectangle that is not empty.
C14_Witness ==
    /\ zEv.op = "release" /\ zEv.mod = "none"
    /\ zHist.pressCached /\ ~zHist.pressEnabled
    /\ zEv.wrote = FramingAttrs /\ camera.panZoomEnabled
    /\ startX # endX /\ startY # endY
    /\ camera.horizontalPan # RZero /\ camera.zoom # ROne

\* C15: the zoom written by a release is strictly positive, and it is 0.01
\* whenever the extent fraction of the rectangle times the overscan is zero
\* or negative.
C15_ZoomIsPositive ==
    [][ FramedStep
            => /\ RLess(RZero, camera'.zoom)
               /\ ~RLess(RZero, RMul(GetZoom(startX, startY, endX, endY),
                                     camera.overscan))
                    => camera'.zoom = <<1, 100>>
      ]_vars

\* C15 witness: a release framed a rectangle of no size and wrote the zoom
\* 0.01.
C15_Witness ==
    /\ zEv.op = "release" /\ zEv.wrote = FramingAttrs
    /\ startX = endX /\ startY = endY
    /\ camera.zoom = <<1, 100>>

\* C16 as stated: in a gesture pressed on a perspective camera every shift
\* drag writes horizontalPan and verticalPan, the pan values of the camera
\* at the press plus (anchor - current) * 0.00081 * zoom.
C16_ShiftDragAlwaysPans ==
    [][ (ZoomDragStep /\ zEv'.mod = "shift" /\ ~zHist.pressOrtho)
            => /\ zEv'.wrote = PanAttrs
               /\ camera'.horizontalPan =
                      RAdd(zHist.pressHPan,
                           PanOffset(startX' - endX', camera.zoom))
               /\ camera'.verticalPan =
                      RAdd(zHist.pressVPan,
                           PanOffset(startY' - endY', camera.zoom))
      ]_vars

\* C16: in a gesture pressed on a perspective camera a shift drag made while
\* panZoomEnabled is true writes horizontalPan and verticalPan, the cached
\* pan values plus (anchor - current) * 0.00081 * zoom, with the zoom of the
\* camera at the drag; the cached values are the pan values of the camera at
\* the press of the gesture when that press was made without ctrl, and the
\* values cached before the gesture otherwise. With panZoomEnabled false the
\* drag writes nothing.
C16_ShiftDragPansWhenEnabled ==
    [][ (ZoomDragStep /\ zEv'.mod = "shift" /\ ~zHist.pressOrtho)
            => /\ camera.panZoomEnabled
                    => /\ zEv'.wrote = PanAttrs
                       /\ camera'.horizontalPan =
                              RAdd(hPan, PanOffset(startX' - endX',
                                                   camera.zoom))
                       /\ camera'.verticalPan =
                              RAdd(vPan, PanOffset(startY' - endY',
                                                   camera.zoom))
                       /\ camera'.zoom = camera.zoom
               /\ zHist.pressCached
                    => (hPan = zHist.pressHPan /\ vPan = zHist.pressVPan)
               /\ ~camera.panZoomEnabled
                    => (zEv'.wrote = {} /\ camera' = camera)
      ]_vars

\* C16 witness: in a gesture pressed without ctrl on a perspective camera
\* with pan/zoom on and a zoom other than 1, a shift drag moved both pan
\* values away from the values they had at the press.
C16_Witness ==
    /\ zEv.op = "drag" /\ zEv.mod = "shift"
    /\ zHist.pressCached /\ zHist.pressEnabled
    /\ zEv.wrote = PanAttrs
    /\ zHist.pressHPan # RZero /\ camera.zoom # ROne
    /\ camera.horizontalPan # zHist.pressHPan
    /\ camera.verticalPan # zHist.pressVPan

\* C17: a shift drag made while panZoomEnabled is false writes neither pan
\* value.
C17_NoPanWhileDisabled ==
    [][ (ZoomDragStep /\ zEv'.mod = "shift" /\ ~camera.panZoomEnabled)
            => /\ zEv'.wrote = {}
               /\ camera'.horizontalPan = camera.horizontalPan
               /\ camera'.verticalPan = camera.verticalPan
      ]_vars

\* C17 witness: with pan/zoom off, a shift drag away from the anchor, in a
\* gesture pressed on a perspective camera without ctrl, wrote nothing.
C17_Witness ==
    /\ zEv.op = "drag" /\ zEv.mod = "shift"
    /\ zHist.pressCached /\ ~camera.panZoomEnabled
    /\ startX # endX /\ startY # endY
    /\ zEv.wrote = {}

\* C18: the orientation a release frames with is horizontal except when the
\* film fit is vertical, or the film fit is fill and the viewport ratio
\* (width / height cached at press) is strictly less than the cached aspect
\* ratio of the camera.
C18_Orientation ==
    [][ FramedStep
            => zEv'.horizontal =
                   ~ \/ camera.filmFit = "vertical"
                     \/ /\ camera.filmFit = "fill"
                        /\ RLess(RDiv(width, height), ratio)
      ]_vars

\* C18 witness: with the fill fit and a view narrower than the camera a
\* release framed vertically.
C18_Witness ==
    /\ zEv.op = "release" /\ zEv.wrote = FramingAttrs
    /\ camera.filmFit = "fill"
    /\ RLess(RDiv(width, height), ratio)
    /\ ~zEv.horizontal

\* C19: the zoom and the pans a release writes are those it would write for
\* the rectangle with anchor and end swapped.
C19_DirectionIndependent ==
    [][ FramedStep
            => /\ camera'.zoom = ZoomView(endX, endY, startX, startY).zoom
               /\ camera'.horizontalPan =
                      ZoomView(endX, endY, startX, startY).panX
               /\ camera'.verticalPan =
                      ZoomView(endX, endY, startX, startY).panY
      ]_vars

\* C19 witness: a release framed a rectangle dragged to the left and
\* upwards, with different ends on both axes.
C19_Witness ==
    /\ zEv.op = "release" /\ zEv.wrote = FramingAttrs
    /\ endX < startX /\ endY > startY
    /\ camera.zoom # <<1, 100>>

\* The case of C20: a horizontal fit, the view as wide as the camera,
\* positive overscan and apertures.
MatchingHorizontalView ==
    /\ height # RZero
    /\ IsHorizontal
    /\ RDiv(width, height) = ratio
    /\ RLess(RZero, camera.overscan)
    /\ RLess(RZero, camera.horizontalFilmAperture)
    /\ RLess(RZero, camera.verticalFilmAperture)

\* Centre of the rectangle minus centre of the viewport, along one axis.
CenterOffset(start, end, size) ==
    RSub(Rat(start + end, 2), RDiv(size, RInt(2)))

\* C20 as stated: in that case the pans have the signs of the centre
\* offsets and the zoom is |endX - startX| / width * overscan.
C20_FramingOfMatchingView ==
    [][ (FramedStep /\ MatchingHorizontalView)
            => /\ RSign(camera'.horizontalPan) =
                      RSign(CenterOffset(startX, endX, width))
               /\ RSign(camera'.verticalPan) =
                      RSign(CenterOffset(startY, endY, height))
               /\ camera'.zoom =
                      RMul(RDiv(RInt(Abs(endX - startX)), width),
                           camera.overscan)
      ]_vars

\* C20: in that case the pans have the signs of the centre offsets, and the
\* zoom is |endX - startX| / width * overscan when the two x coordinates
\* differ and 0.01 when they are equal; for a viewport of 1920 x 1080 and
\* the rectangle (960, 540) - (1440, 810) both pans are positive and the
\* zoom is 0.25 * overscan.
C20_FramingOfMatchingViewFloored ==
    [][ (FramedStep /\ MatchingHorizontalView)
            => /\ RSign(camera'.horizontalPan) =
                      RSign(CenterOffset(startX, endX, width))
               /\ RSign(camera'.verticalPan) =
                      RSign(CenterOffset(startY, endY, height))
               /\ camera'.zoom =
                      IF endX = startX
                      THEN <<1, 100>>
                      ELSE RMul(RDiv(RInt(Abs(endX - startX)), width),
                                camera.overscan)
               /\ (/\ width = RInt(1920) /\ height = RInt(1080)
                   /\ startX = 960 /\ startY = 540
                   /\ endX = 1440 /\ endY = 810)
                    => /\ RLess(RZero, camera'.horizontalPan)
                       /\ RLess(RZero, camera'.verticalPan)
                       /\ camera'.zoom = RMul(<<1, 4>>, camera.overscan)
      ]_vars

\* C20 witness: in a view of 1920 x 1080 as wide as its camera a release
\* framed the rectangle (960, 540) - (1440, 810) horizontally.
C20_Witness ==
    /\ zEv.op = "release" /\ zEv.wrote = FramingAttrs
    /\ MatchingHorizontalView /\ zEv.horizontal
    /\ width = RInt(1920) /\ height = RInt(1080)
    /\ startX = 960 /\ startY = 540 /\ endX = 1440 /\ endY = 810
    /\ RLess(RZero, camera.horizontalPan)
    /\ RLess(RZero, camera.verticalPan)

\* C21: the toggle run by a ctrl press on a perspective camera sets
\* panZoomEnabled to the negation of its value and changes no other camera
\* attribute, and a second toggle right after it gives back the camera as
\* it was.
C21_ToggleNegates ==
    [][ (ZoomPressStep /\ zEv'.mod = "ctrl" /\ ~camera.ortho)
            => /\ camera' = [camera EXCEPT
                                !.panZoomEnabled = ~camera.panZoomEnabled]
               /\ camera'.horizontalPan = camera.horizontalPan
               /\ camera'.verticalPan = camera.verticalPan
               /\ camera'.zoom = camera.zoom
               /\ TogglePanZoom(camera') = camera
               /\ TogglePanZoom(TogglePanZoom(camera)) = camera
      ]_vars

\* C21 witness: a ctrl press switched pan/zoom off on a camera that an
\* earlier gesture had framed, and the pans and the zoom kept their values.
C21_Witness ==
    /\ zEv.op = "press" /\ zEv.mod = "ctrl" /\ ~zHist.pressOrtho
    /\ zEv.wrote = {"panZoomEnabled"}
    /\ zHist.pressEnabled /\ ~camera.panZoomEnabled
    /\ camera.zoom # ROne
    /\ camera.horizontalPan = zHist.pressHPan
    /\ camera.verticalPan = zHist.pressVPan

\* ------------------------------------------- claims on the vector methods

RNeg(a) == <<-a[1], a[2]>>

\* Three rows that are unit vectors orthogonal to one another.
Orthonormal(rows) ==
    /\ Len(rows) = 3
    /\ \A i \in 1..3 : Dot(rows[i], rows[i]) = ROne
    /\ \A i \in 1..3, j \in 1..3 : i # j => Dot(rows[i], rows[j]) = RZero

\* xRow x yRow = zRow.
RightHanded(rows) == Cross(rows[1], rows[2]) = rows[3]

ParallelToUp(v) == Cross(v, WorldUp) = <<0, 0, 0, 1>>

\* C22: for unit vectors V and N the vector _reflectionVector returns has
\* the normal component -(V.N) and the squared length of V.
C22_MirrorReflection ==
    mathIn.op = "reflect"
        => /\ Dot(reflected, mathIn.n) = RNeg(Dot(mathIn.v, mathIn.n))
           /\ Dot(reflected, reflected) = Dot(mathIn.v, mathIn.v)
           /\ Dot(reflected, reflected) = ROne

\* C22 witness: a view vector that is neither along nor across the normal
\* was reflected into another vector.
C22_Witness ==
    /\ mathIn.op = "reflect"
    /\ Dot(mathIn.v, mathIn.n) \notin {RZero, ROne, RNeg(ROne)}
    /\ reflected # mathIn.v /\ reflected # VNeg(mathIn.v)

\* C23: for unit vectors V and N, reflecting the reflection of V at N gives
\* V back.
C23_ReflectionIsInvolution ==
    mathIn.op = "reflect"
        => ReflectionVector(reflected, mathIn.n) = mathIn.v

\* C23 witness: a view vector with a normal component was reflected, and
\* the result differs from it.
C23_Witness ==
    /\ mathIn.op = "reflect"
    /\ Dot(mathIn.v, mathIn.n) # RZero
    /\ mathIn.v # mathIn.n
    /\ reflected # mathIn.v
    /\ ReflectionVector(reflected, mathIn.n) = mathIn.v

\* C24: for an axis preference of 0, 1 or 2, either invert setting and a
\* unit vector not parallel to world up, the rows _quatFromVector builds
\* are orthonormal and right-handed.
C24_BasisIsProperRotation ==
    (mathIn.op = "orient" /\ mathIn.axis \in {0, 1, 2}
        /\ ~ParallelToUp(mathIn.v))
        => /\ Orthonormal(basis)
           /\ RightHanded(basis)

\* C25: the row of the configured axis is V when invert is unset and -V
\* when it is set.
C25_AxisRowIsVector ==
    (mathIn.op = "orient" /\ mathIn.axis \in {0, 1, 2})
        => basis[mathIn.axis + 1] =
               IF Truthy(mathIn.invert) THEN VNeg(mathIn.v) ELSE mathIn.v

\* C26: for a vector parallel to world up the rows _quatFromVector builds
\* are still orthonormal.
C26_DegenerateIsGuarded ==
    (mathIn.op = "orient" /\ ParallelToUp(mathIn.v)) => Orthonormal(basis)

\* ------------------------------------------- claims on the direct calls

\* C28: after any sequence of setter calls, loads and resets of the
\* preferences, the axis is 0, 1 or 2 and the slow and the fast speed are
\* greater than zero.
C28_PreferencesStayValid ==
    /\ axis \in {0, 1, 2}
    /\ RLess(RZero, speedSlow)
    /\ RLess(RZero, speedFast)

\* The fields of both tools that a gesture reads are those of the freshly
\* constructed objects.
FreshForGesture ==
    /\ dag = None /\ meshDag = None /\ isSet = FALSE
    /\ reflPoint = NoVector /\ reflVector = NoVector
    /\ dist = RZero /\ moveDist = RZero
    /\ mfn = None /\ cacheVars = <<RZero, RZero, RZero, RZero, RZero>>
    /\ rectVars = <<0, 0, 0, 0>>

\* C29: a release or a finalize of either tool run when no button was ever
\* pressed raises no fault and leaves the tool as freshly constructed for
\* the following gesture.
C29_UnpressedReleaseIsSafe ==
    [][/\ (ReleaseUnpressed \/ Finalize)
          => /\ ~fault'
             /\ FreshForGesture'
             /\ hist'.placedSince = FALSE
       /\ ((\E modifier \in Modifiers : ZoomReleaseUnpressed(modifier))
           \/ ZoomFinalize)
          => /\ ~zEv'.raised
             /\ FreshForGesture']_vars

\* ------------------------------------------------ further placer claims

\* C31: in every reachable state, armed implies that a reflection point and
\* a reflection vector are stored, across presses, releases, failed place
\* drags and the tool being exited and entered again.
C31_ArmedHasReflection ==
    isSet => (reflPoint # NoVector /\ reflVector # NoVector)

\* C31 witness: the tool is armed after a place-mode drag that missed every
\* mesh, in a gesture after the one that placed the node.
C31_Witness ==
    /\ isSet /\ reflPoint # NoVector /\ reflVector # NoVector
    /\ ev.op = "drag" /\ ev.mod = "none" /\ ~ev.wrote
    /\ ~hist.placedInGesture

\* C32: a move distance of zero is absorbing across gestures: a release and
\* the following press leave the move distance as the gesture ended with, and
\* in a gesture pressed at a move distance of zero every move-mode drag
\* yields a move distance of zero, whatever the drag displacement, until a
\* place-mode drag of the gesture succeeds.
C32_ZeroMoveDistanceIsAbsorbing ==
    [][ /\ ev'.op \in {"release", "press"} => moveDist' = moveDist
        /\ (MoveDragStep /\ hist.moveAtPress = RZero /\ ~hist.placedInGesture)
               => moveDist' = RZero
      ]_vars

\* C32 witness: a node placed at a non-zero distance was moved to the
\* distance zero by a move-mode drag, and an armed move-mode drag of a later
\* gesture away from the anchor wrote the transform with the distance zero.
C32_Witness ==
    /\ ev.op = "drag" /\ ev.mod \in {"shift", "ctrl"} /\ ev.wrote
    /\ isSet /\ ~hist.placedInGesture
    /\ hist.placeDist # RZero
    /\ hist.moveAtPress = RZero
    /\ ev.x # IntTrunc(anchorPoint)
    /\ dist = RZero /\ moveDist = RZero

\* --------------------------------------------- further quickZoom claims

\* C33: the drag rectangle is the one recorded by the most recent drag
\* callback: only a drag changes it, it is all zero while no drag has run,
\* and a release with modifier none that follows the press with no drag in
\* between (in a gesture whose press read the view) frames the camera with
\* the rectangle the last drag of an earlier gesture left.
C33_ReleaseUsesLastDragRectangle ==
    [][ /\ ~ZoomDragStep => UNCHANGED rectVars
        /\ zDrags' = 0 => rectVars' = <<0, 0, 0, 0>>
        /\ (/\ ZoomReleaseStep /\ zEv'.mod = "none"
            /\ ~zHist.dragged /\ zHist.pressCached)
               => /\ zEv'.wrote = FramingAttrs
                  /\ camera'.zoom = ZoomView(startX, startY, endX, endY).zoom
                  /\ camera'.horizontalPan =
                         ZoomView(startX, startY, endX, endY).panX
                  /\ camera'.verticalPan =
                         ZoomView(startX, startY, endX, endY).panY
      ]_vars

\* C33 witness: a release with modifier none that followed its press with no
\* drag in between framed the rectangle an earlier gesture had dragged, which
\* is not empty: the zoom is not the floor a rectangle of no size gives.
C33_Witness ==
    /\ zEv.op = "release" /\ zEv.mod = "none" /\ zEv.wrote = FramingAttrs
    /\ ~zHist.dragged /\ zHist.pressCached
    /\ zGestures = 2 /\ zDrags > 0
    /\ startX # endX /\ startY # endY
    /\ <<endX, endY>> # <<IntTrunc(zAnchor[1]), IntTrunc(zAnchor[2])>>
    /\ camera.zoom = ZoomView(startX, startY, endX, endY).zoom
    /\ camera.zoom # <<1, 100>>
====
